---------------------------- MODULE Spec2Model ----------------------------
(***************************************************************************)
(* class2type (src/index.ts): converts the classes of the source files of  *)
(* a project into `export type` declarations, collecting the enums and     *)
(* type aliases the properties refer to in a global text buffer.           *)
(*                                                                         *)
(* Texts are modelled as strings, character for character as the template  *)
(* literals of the source build them.  The syntax tree (ts-morph) is the   *)
(* input: a project is a sequence of source files, each with its enums,    *)
(* type aliases, import declarations and classes.  All the files live in   *)
(* one directory, and module specifiers have the form "./name".  The       *)
(* formatter (prettier) is an external function of the text it is given;   *)
(* the artifact it produces is modelled by the text handed to it.          *)
(***************************************************************************)
EXTENDS Integers, Sequences, FiniteSets, TLC

VARIABLES
    files,          \* project.addSourceFilesAtPaths(paths): the input
    pc,             \* position of run(): "files" | "classes" | "props" | "done" | "failed"
    fileIdx,        \* index of the file files.forEach is at
    classIdx,       \* index of the class file.getClasses().forEach is at
    propIdx,        \* index of the property c.getProperties().map is at
    currentFile,    \* the global currentFile (an index into files, 0 before the loop)
    globalContent,  \* the global globalContent
    classTypeMaps,  \* the global classTypeMaps, as a set of <<className, text>>
    filesToWrite,   \* run's filesToWrite
    content,        \* the fragment of the file being processed
    properties,     \* the field lines getPropertiesInTextFormat has mapped so far
    disk,           \* the files written: a function from file name to text
    errorMessage    \* the message of the error thrown ("" while none)

vars == <<files, pc, fileIdx, classIdx, propIdx, currentFile, globalContent,
          classTypeMaps, filesToWrite, content, properties, disk, errorMessage>>

---------------------------------------------------------------------------
(* Strings: the operations of String.prototype the source uses.            *)

Null == <<>>
Some(t) == <<t>>

\* `${v}` of a value that may be null
Interpolate(v) == IF v = Null THEN "null" ELSE v[1]

\* whether pat occurs in s at the 0-based index i
OccursAt(s, pat, i) == /\ i >= 0
                       /\ i + Len(pat) <= Len(s)
                       /\ SubSeq(s, i + 1, i + Len(pat)) = pat

\* s.indexOf(pat): the 0-based index of the first occurrence, -1 if none
IndexOf(s, pat) ==
    LET hits == {i \in 0..(Len(s) - Len(pat)) : OccursAt(s, pat, i)}
    IN  IF hits = {} THEN -1 ELSE CHOOSE i \in hits : \A j \in hits : i <= j

\* s.replace(pat, rep) with a string pattern: the first occurrence only
Replace(s, pat, rep) ==
    LET i == IndexOf(s, pat)
    IN  IF i = -1 THEN s
        ELSE SubSeq(s, 1, i) \o rep \o SubSeq(s, i + Len(pat) + 1, Len(s))

UpperCase == "ABCDEFGHIJKLMNOPQRSTUVWXYZ"
LowerCase == "abcdefghijklmnopqrstuvwxyz"

LowerChar(c) ==
    LET i == IndexOf(UpperCase, c)
    IN  IF i = -1 THEN c ELSE SubSeq(LowerCase, i + 1, i + 1)

RECURSIVE ToLowerCase(_)
ToLowerCase(s) ==
    IF s = "" THEN ""
    ELSE LowerChar(SubSeq(s, 1, 1)) \o ToLowerCase(SubSeq(s, 2, Len(s)))

\* strs.join(sep)
RECURSIVE Join(_, _)
Join(strs, sep) ==
    IF strs = <<>> THEN ""
    ELSE IF Len(strs) = 1 THEN strs[1]
    ELSE strs[1] \o sep \o Join(Tail(strs), sep)

\* s.split(sep).pop(): what follows the last sep
RECURSIVE SplitPop(_, _)
SplitPop(s, sep) ==
    LET i == IndexOf(s, sep)
    IN  IF i = -1 THEN s ELSE SplitPop(SubSeq(s, i + Len(sep) + 1, Len(s)), sep)

\* path.resolve(dir, specifier) for a specifier "./rest" or "rest"
PathResolve(dir, specifier) ==
    IF OccursAt(specifier, "./", 0)
    THEN dir \o "/" \o SubSeq(specifier, 3, Len(specifier))
    ELSE dir \o "/" \o specifier

---------------------------------------------------------------------------
(* The syntax tree.                                                        *)

DirectoryPath == "/src"

FilePath(file) == DirectoryPath \o "/" \o file.baseName

\* project.getSourceFile(path)
GetSourceFile(project, path) ==
    LET found == {i \in 1..Len(project) : FilePath(project[i]) = path}
    IN  IF found = {} THEN Null
        ELSE Some(project[CHOOSE i \in found : \A j \in found : i <= j])

\* file.getEnum(name)?.getText(), file.getTypeAlias(name)?.getText()
GetDeclarationText(decls, name) ==
    LET found == {i \in 1..Len(decls) : decls[i].name = name}
    IN  IF found = {} THEN Null
        ELSE Some(decls[CHOOSE i \in found : \A j \in found : i <= j].text)

findAndExtractEnumTextFromFile(file, enumName) ==
    LET foundEnum == GetDeclarationText(file.enums, enumName)
    IN  IF foundEnum = Null \/ foundEnum = Some("") THEN Null ELSE foundEnum

findAndExtractTypeTextFromFile(file, aliasName) ==
    LET foundEnum == GetDeclarationText(file.typeAliases, aliasName)
    IN  IF foundEnum = Null \/ foundEnum = Some("") THEN Null ELSE foundEnum

\* currentFile.getImportDeclarations().find(d => namedImports.find(ni => ni.name === name))
FindImport(file, name) ==
    LET found == {i \in 1..Len(file.imports) :
                     \E k \in 1..Len(file.imports[i].namedImports) :
                         file.imports[i].namedImports[k] = name}
    IN  IF found = {} THEN Null
        ELSE Some(file.imports[CHOOSE i \in found : \A j \in found : i <= j])

\* foundEnum?.indexOf("export") !== 1 ? "export" : ""
ExportPrefix(found) ==
    IF found = Null THEN "export"
    ELSE IF IndexOf(found[1], "export") # 1 THEN "export" ELSE ""

Threw(message) == [threw |-> TRUE, value |-> "", message |-> message]
Returned(value) == [threw |-> FALSE, value |-> value, message |-> ""]

searchForEnumInFiles(project, file, enumValue) ==
    LET foundEnum == findAndExtractEnumTextFromFile(file, enumValue)
        importedModule == FindImport(file, enumValue)
        specifier == importedModule[1].moduleSpecifier \o ".ts"
        specifiedFile == GetSourceFile(project, PathResolve(DirectoryPath, specifier))
        imported == findAndExtractEnumTextFromFile(specifiedFile[1], enumValue)
    IN  IF foundEnum # Null
        THEN Returned(ExportPrefix(foundEnum) \o " " \o foundEnum[1] \o "\n\n")
        ELSE IF importedModule = Null
        THEN Threw("Could not find import declaration for enum " \o enumValue)
        ELSE IF specifiedFile = Null
        THEN Threw("could not find file at path " \o specifier)
        ELSE Returned("\n       // " \o SplitPop(specifier, "/") \o "\n       "
                      \o ExportPrefix(imported) \o " " \o Interpolate(imported) \o "\n\n")

\* mutant: the lookup follows a second import when the imported file does not
\* declare the alias
searchForTypeAliasTwoHops(project, file, aliasValue) ==
    LET foundAlias == findAndExtractTypeTextFromFile(file, aliasValue)
        importedModule == FindImport(file, aliasValue)
        specifier == importedModule[1].moduleSpecifier \o ".ts"
        specifiedFile == GetSourceFile(project, PathResolve(DirectoryPath, specifier))
        firstHop == findAndExtractTypeTextFromFile(specifiedFile[1], aliasValue)
        nextModule == FindImport(specifiedFile[1], aliasValue)
        nextFile == GetSourceFile(project,
                        PathResolve(DirectoryPath, nextModule[1].moduleSpecifier \o ".ts"))
        imported == IF firstHop = Null /\ nextModule # Null /\ nextFile # Null
                    THEN findAndExtractTypeTextFromFile(nextFile[1], aliasValue)
                    ELSE firstHop
    IN  IF foundAlias # Null
        THEN Returned(ExportPrefix(foundAlias) \o " " \o foundAlias[1] \o "\n\n")
        ELSE IF importedModule = Null
        THEN Threw("Could not find import declaration for typeAlias " \o aliasValue)
        ELSE IF specifiedFile = Null
        THEN Threw("could not find file at path " \o specifier)
        ELSE Returned("\n         // " \o SplitPop(specifier, "/") \o "\n         "
                      \o ExportPrefix(imported) \o " " \o Interpolate(imported) \o "\n\n")

searchForTypeAliasInFiles(project, file, aliasValue) ==
    LET foundAlias == findAndExtractTypeTextFromFile(file, aliasValue)
        importedModule == FindImport(file, aliasValue)
        specifier == importedModule[1].moduleSpecifier \o ".ts"
        specifiedFile == GetSourceFile(project, PathResolve(DirectoryPath, specifier))
        imported == findAndExtractTypeTextFromFile(specifiedFile[1], aliasValue)
    IN  IF foundAlias # Null
        THEN Returned(ExportPrefix(foundAlias) \o " " \o foundAlias[1] \o "\n\n")
        ELSE IF importedModule = Null
        THEN Threw("Could not find import declaration for typeAlias " \o aliasValue)
        ELSE IF specifiedFile = Null
        THEN Threw("could not find file at path " \o specifier)
        ELSE Returned("\n         // " \o SplitPop(specifier, "/") \o "\n         "
                      \o ExportPrefix(imported) \o " " \o Interpolate(imported) \o "\n\n")

getRefType(p) ==
    IF p.typeKind = "TypeReference"
    THEN IF p.isEnum THEN "enum" ELSE "typeAlias"
    ELSE "null"

\* the lookup getPropertiesInTextFormat makes for property p
SearchFor(project, file, p) ==
    IF getRefType(p) = "enum" THEN searchForEnumInFiles(project, file, p.type)
    ELSE IF getRefType(p) = "typeAlias" THEN searchForTypeAliasInFiles(project, file, p.type)
    ELSE Returned("")

\* mutant: the field line without the optional marker
PropertyTextNoQuestion(p) ==
    "\n               " \o p.docs \o "\n                 "
    \o p.name \o ": " \o p.type
    \o "\n                 "

\* the field line getPropertiesInTextFormat maps property p to
PropertyText(p) ==
    "\n               " \o p.docs \o "\n                 "
    \o p.name \o (IF p.hasQuestionToken THEN "?" ELSE "") \o ": " \o p.type
    \o "\n                 "

getExtendedType(arg) ==
    IF arg.isPartial THEN "Partial<" \o arg.arg \o ">" ELSE arg.arg

\* mutant: the structural block is written whether or not there are properties
getTypePropertiesOrEmptyBlock(props, isExtending) ==
    (IF isExtending THEN "& " ELSE "") \o " {\n               "
    \o Join(props, ";\n") \o "\n           };"

getTypePropertiesOrReturnAnyRecord(props, isExtending) ==
    IF Len(props) > 0
    THEN (IF isExtending THEN "& " ELSE "") \o " {\n               "
         \o Join(props, ";\n") \o "\n           };"
    ELSE IF isExtending THEN "" ELSE "Record<string, any>"

\* the terms one child node of the extends expression pushes to extendArgs
PartialArgs(lists) ==
    [i \in 1..Len(lists) |-> [arg |-> Replace(lists[i], ",", ""), isPartial |-> TRUE]]

NodeExtendArgs(node) ==
    (IF node.kind = "CallExpression"
        /\ ToLowerCase(node.firstChild) = ToLowerCase("PartialType")
     THEN PartialArgs(node.syntaxLists) ELSE <<>>)
    \o
    (IF node.kind = "Identifier"
     THEN <<[arg |-> Replace(node.text, ",", ""), isPartial |-> FALSE]>> ELSE <<>>)

\* c.getExtends()?.forEachChild(...): extendArgs after the walk
RECURSIVE ExtendArgs(_)
ExtendArgs(children) ==
    IF children = <<>> THEN <<>>
    ELSE NodeExtendArgs(Head(children)) \o ExtendArgs(Tail(children))

ResolvedArgs(extendArgs) ==
    Join([i \in 1..Len(extendArgs) |-> getExtendedType(extendArgs[i])], "& ")

\* mutant: the properties are written as for a class that extends nothing
getExtendedClassContentNotExtending(className, extendArgs, classComment, props) ==
    "\n       " \o classComment \o "\n       export type " \o className \o " = "
    \o ResolvedArgs(extendArgs) \o "\n       "
    \o getTypePropertiesOrReturnAnyRecord(props, FALSE) \o ";"

getExtendedClassContent(className, extendArgs, classComment, props) ==
    "\n       " \o classComment \o "\n       export type " \o className \o " = "
    \o ResolvedArgs(extendArgs) \o "\n       "
    \o getTypePropertiesOrReturnAnyRecord(props, TRUE) \o ";"

getNormalClassContent(className, classComment, props) ==
    "\n       " \o classComment \o "\n       export type " \o className \o " = "
    \o getTypePropertiesOrReturnAnyRecord(props, FALSE) \o ";"

\* the declaration text of class c with the field lines props
ClassContent(c, props) ==
    IF Len(ExtendArgs(c.extends)) > 0
    THEN getExtendedClassContent(c.name, ExtendArgs(c.extends), c.docs, props)
    ELSE getNormalClassContent(c.name, c.docs, props)

getFinalContentTemplate(namespace, innerContent) ==
    "\n           namespace " \o namespace \o " {\n               "
    \o innerContent \o "\n           }\n       "

FileHeader(filename) == "\n           // " \o filename \o "\n       "

\* mutant: only the fragment of the file just processed is written
InnerContentLastOnly(toWrite) == toWrite[Len(toWrite)].content \o "\n\n"

InnerContent(toWrite) ==
    Join([i \in 1..Len(toWrite) |-> toWrite[i].content \o "\n\n"], "")

Namespace == "Api"
TempFile == "types.temp"
OutFile == "definitions.d.ts"

---------------------------------------------------------------------------
(* The input: the projects the runs are checked on.                        *)

MaxFiles == 2        \* source files of a project
MaxClasses == 2      \* classes of a project
MaxProps == 2        \* properties of a project
MaxExtNodes == 2     \* child nodes of an extends expression
MaxArgs == 2         \* arguments of a call in an extends expression

FileNames == <<"a.dto.ts", "b.dto.ts", "c.dto.ts", "d.dto.ts", "e.dto.ts">>
ModuleSpecifiers == <<"./a.dto", "./b.dto", "./c.dto", "./d.dto", "./e.dto">>
ClassNames == <<"Foo", "Bar", "Baz", "Qux", "Quux">>
ArgNames == <<"A", "B", "C", "D", "E">>
Digits == "123456789"

SeqsUpTo(S, n) == UNION {[1..k -> S] : k \in 0..n}

PStatus == [name |-> "status", hasQuestionToken |-> TRUE, type |-> "Status",
            typeKind |-> "TypeReference", isEnum |-> TRUE, docs |-> ""]
PMeta == [name |-> "meta", hasQuestionToken |-> FALSE, type |-> "Meta",
          typeKind |-> "TypeReference", isEnum |-> FALSE, docs |-> ""]
PId == [name |-> "id", hasQuestionToken |-> FALSE, type |-> "string",
        typeKind |-> "StringKeyword", isEnum |-> FALSE, docs |-> "/** id */"]

\* the properties of a class: shape i named after its position
MakeProps(shapes) ==
    [i \in 1..Len(shapes) |->
        [shapes[i] EXCEPT !.name = shapes[i].name \o SubSeq(Digits, i, i)]]

MakeClass(i, extends, shapes) ==
    [name |-> ClassNames[i],
     docs |-> IF i = 1 THEN "/** first */" ELSE "",
     extends |-> extends,
     properties |-> MakeProps(shapes)]

\* How a file binds the names Status and Meta: not at all, by a declaration
\* of its own (exported or not), or by an import from the next module.
Bindings == {"none", "local", "exported", "import"}

\* the declarations of file i: each file's have a text of their own
Members == <<"On", "Off", "Up", "Down", "Idle">>
Aliased == <<"string", "number", "boolean", "bigint", "symbol">>

EnumText(i, b) ==
    (IF b = "exported" THEN "export " ELSE "") \o "enum Status { " \o Members[i] \o " }"
AliasText(i, b) ==
    (IF b = "exported" THEN "export " ELSE "") \o "type Meta = " \o Aliased[i] \o ";"

ImportedNames(shape) ==
    (IF shape.status = "import" THEN <<"Status">> ELSE <<>>)
    \o (IF shape.meta = "import" THEN <<"Meta">> ELSE <<>>)

MakeFile(i, shape, classes) ==
    [baseName |-> FileNames[i],
     enums |-> IF shape.status \in {"local", "exported"}
               THEN <<[name |-> "Status", text |-> EnumText(i, shape.status)]>> ELSE <<>>,
     typeAliases |-> IF shape.meta \in {"local", "exported"}
                     THEN <<[name |-> "Meta", text |-> AliasText(i, shape.meta)]>> ELSE <<>>,
     imports |-> IF ImportedNames(shape) = <<>> THEN <<>>
                 ELSE <<[moduleSpecifier |-> ModuleSpecifiers[i + 1],
                         namedImports |-> ImportedNames(shape)]>>,
     classes |-> classes]

\* Projects of at most f files with at most c classes and p properties in
\* all, the classes without extends clause.  Every file declares Status and
\* Meta; Other is a class, which no file declares as a type alias or imports.
POther == [name |-> "other", hasQuestionToken |-> TRUE, type |-> "Other",
           typeKind |-> "TypeReference", isEnum |-> FALSE, docs |-> ""]

LayoutShapes == {[status |-> "exported", meta |-> "local"]}
LayoutProps == {PStatus, PMeta, POther}

RECURSIVE TotalLen(_)
TotalLen(seqs) == IF seqs = <<>> THEN 0 ELSE Len(Head(seqs)) + TotalLen(Tail(seqs))

RECURSIVE ClassLayouts(_, _)
ClassLayouts(c, p) ==
    {<<>>} \cup
    (IF c = 0 THEN {}
     ELSE UNION {{<<ps>> \o rest : rest \in ClassLayouts(c - 1, p - Len(ps))} :
                    ps \in SeqsUpTo(LayoutProps, p)})

RECURSIVE FileLayouts(_, _, _)
FileLayouts(f, c, p) ==
    {<<>>} \cup
    (IF f = 0 THEN {}
     ELSE UNION {{<<[shape |-> x[1], layout |-> x[2]]>> \o rest :
                      rest \in FileLayouts(f - 1, c - Len(x[2]), p - TotalLen(x[2]))} :
                    x \in LayoutShapes \X ClassLayouts(c, p)})

LayoutProject(fl) ==
    [i \in 1..Len(fl) |->
        MakeFile(i, fl[i].shape,
                 [j \in 1..Len(fl[i].layout) |-> MakeClass(j, <<>>, fl[i].layout[j])])]

LayoutProjects == {LayoutProject(fl) : fl \in FileLayouts(MaxFiles, MaxClasses, MaxProps)}

\* Projects of at most MaxFiles + 1 files whose first file has one class with
\* one property and binds the two names in every way; the second file has no
\* class and binds them in every way; the files after it have no class and
\* declare both names.
LocateShapes == [status : Bindings, meta : Bindings]
LastShapes == {[status |-> "exported", meta |-> "exported"]}

LocateProjects ==
    UNION {{[i \in 1..n |-> MakeFile(i, shapes[i],
                IF i = 1 THEN <<MakeClass(1, <<>>, <<p>>)>> ELSE <<>>)] :
               shapes \in {sh \in [1..n -> LocateShapes] :
                              \A i \in 3..n : sh[i] \in LastShapes},
               p \in {PStatus, PMeta}} :
           n \in 1..(MaxFiles + 1)}

\* Projects of one file with one class: every extends expression of at most
\* MaxExtNodes child nodes, with no, one or two properties.
\* a call callee(args): its children are the callee, "(", one SyntaxList
\* holding the whole argument list, and ")"
CallExpression(callee, args, list) ==
    [kind |-> "CallExpression", text |-> callee \o "(" \o list \o ")",
     firstChild |-> callee, syntaxLists |-> <<list>>, arguments |-> args]
Identifier(text) ==
    [kind |-> "Identifier", text |-> text, firstChild |-> "", syntaxLists |-> <<>>,
     arguments |-> <<>>]
OtherNode == [kind |-> "PropertyAccessExpression", text |-> "base.Base",
              firstChild |-> "", syntaxLists |-> <<>>, arguments |-> <<>>]

\* the first k argument names, and the text of that argument list
Args(k) == SubSeq(ArgNames, 1, k)
ArgList(k) == Join(Args(k), ", ")

ExtendsNodes ==
    {Identifier("A"), Identifier("B"), OtherNode}
    \cup {CallExpression("PartialType", Args(k), ArgList(k)) : k \in 1..MaxArgs}
    \cup {CallExpression("PartialType", <<"A">>, "A,"),
          CallExpression("partialtype", <<"A">>, "A"),
          CallExpression("OmitType", <<"A">>, "A")}

ClassProps == {<<>>, <<PId>>, <<PStatus, PId>>}

ClassProjects ==
    {<<MakeFile(1, [status |-> "local", meta |-> "none"],
                <<MakeClass(2, x[1], x[2])>>)>> :
        x \in SeqsUpTo(ExtendsNodes, MaxExtNodes) \X ClassProps}

Projects == LayoutProjects \cup LocateProjects \cup ClassProjects

---------------------------------------------------------------------------
(* run().                                                                  *)

Init ==
    /\ files \in Projects
    /\ pc = "files"
    /\ fileIdx = 1
    /\ classIdx = 1
    /\ propIdx = 1
    /\ currentFile = 0
    /\ globalContent = ""
    /\ classTypeMaps = {}
    /\ filesToWrite = <<>>
    /\ content = ""
    /\ properties = <<>>
    /\ disk = [f \in {} |-> ""]
    /\ errorMessage = ""

CurFile == files[fileIdx]
CurClass == CurFile.classes[classIdx]
CurProp == CurClass.properties[propIdx]

\* files.forEach: the callback starts on the next file
StartFile ==
    /\ pc = "files"
    /\ fileIdx <= Len(files)
    /\ currentFile' = fileIdx
    /\ content' = FileHeader(CurFile.baseName)
    /\ classIdx' = 1
    /\ pc' = "classes"
    /\ UNCHANGED <<files, fileIdx, propIdx, globalContent, classTypeMaps,
                   filesToWrite, properties, disk, errorMessage>>

\* file.getClasses().forEach: the callback starts on the next class and
\* calls getPropertiesInTextFormat
StartClass ==
    /\ pc = "classes"
    /\ classIdx <= Len(CurFile.classes)
    /\ properties' = <<>>
    /\ propIdx' = 1
    /\ pc' = "props"
    /\ UNCHANGED <<files, fileIdx, classIdx, currentFile, globalContent,
                   classTypeMaps, filesToWrite, content, disk, errorMessage>>

\* mutant: a declaration text the buffer already holds is not appended again
MapPropertyDeduplicating ==
    /\ pc = "props"
    /\ propIdx <= Len(CurClass.properties)
    /\ LET found == SearchFor(files, files[currentFile], CurProp)
       IN  /\ ~found.threw
           /\ globalContent' = IF found.value # "" /\ IndexOf(globalContent, found.value) = -1
                               THEN globalContent \o found.value
                               ELSE globalContent
    /\ properties' = Append(properties, PropertyText(CurProp))
    /\ propIdx' = propIdx + 1
    /\ UNCHANGED <<files, pc, fileIdx, classIdx, currentFile, classTypeMaps,
                   filesToWrite, content, disk, errorMessage>>

\* mutant: a lookup that throws is caught and the property mapped all the same
MapPropertySwallowing ==
    /\ pc = "props"
    /\ propIdx <= Len(CurClass.properties)
    /\ LET found == SearchFor(files, files[currentFile], CurProp)
       IN  globalContent' = IF ~found.threw /\ found.value # ""
                            THEN globalContent \o found.value
                            ELSE globalContent
    /\ properties' = Append(properties, PropertyText(CurProp))
    /\ propIdx' = propIdx + 1
    /\ UNCHANGED <<files, pc, fileIdx, classIdx, currentFile, classTypeMaps,
                   filesToWrite, content, disk, errorMessage>>

\* c.getProperties().map: one property, its lookup returning
MapProperty ==
    /\ pc = "props"
    /\ propIdx <= Len(CurClass.properties)
    /\ LET found == SearchFor(files, files[currentFile], CurProp)
       IN  /\ ~found.threw
           /\ globalContent' = IF found.value # "" THEN globalContent \o found.value
                               ELSE globalContent
    /\ properties' = Append(properties, PropertyText(CurProp))
    /\ propIdx' = propIdx + 1
    /\ UNCHANGED <<files, pc, fileIdx, classIdx, currentFile, classTypeMaps,
                   filesToWrite, content, disk, errorMessage>>

\* c.getProperties().map: one property, its lookup throwing; the error
\* unwinds to the catch at the top level, which exits with status 1
ThrowError ==
    /\ pc = "props"
    /\ propIdx <= Len(CurClass.properties)
    /\ LET found == SearchFor(files, files[currentFile], CurProp)
       IN  /\ found.threw
           /\ errorMessage' = found.message
    /\ pc' = "failed"
    /\ UNCHANGED <<files, fileIdx, classIdx, propIdx, currentFile, globalContent,
                   classTypeMaps, filesToWrite, content, properties, disk>>

\* the rest of the class callback: the extends walk and the declaration
EmitClass ==
    /\ pc = "props"
    /\ propIdx > Len(CurClass.properties)
    /\ LET text == ClassContent(CurClass, properties)
       IN  /\ classTypeMaps' = {m \in classTypeMaps : m[1] # CurClass.name}
                               \cup {<<CurClass.name, text>>}
           /\ content' = content \o text
    /\ classIdx' = classIdx + 1
    /\ pc' = "classes"
    /\ UNCHANGED <<files, fileIdx, propIdx, currentFile, globalContent,
                   filesToWrite, properties, disk, errorMessage>>

\* writeFile(filename, content)
writeFile(d, filename, text) ==
    [f \in DOMAIN d \cup {filename} |-> IF f = filename THEN text ELSE d[f]]

\* the rest of the file callback: the two artifacts are written
WriteFiles ==
    /\ pc = "classes"
    /\ classIdx > Len(CurFile.classes)
    /\ LET toWrite == Append(filesToWrite,
                             [filename |-> CurFile.baseName, content |-> content])
           innerContent == InnerContent(toWrite)
           finalContent == getFinalContentTemplate(Namespace,
                               globalContent \o " " \o innerContent)
       IN  /\ filesToWrite' = toWrite
           /\ disk' = writeFile(writeFile(disk, TempFile,
                                          globalContent \o " " \o innerContent),
                                OutFile, finalContent)
    /\ fileIdx' = fileIdx + 1
    /\ pc' = "files"
    /\ UNCHANGED <<files, classIdx, propIdx, currentFile, globalContent,
                   classTypeMaps, content, properties, errorMessage>>

\* files.forEach is over: run returns
Finish ==
    /\ pc = "files"
    /\ fileIdx > Len(files)
    /\ pc' = "done"
    /\ UNCHANGED <<files, fileIdx, classIdx, propIdx, currentFile, globalContent,
                   classTypeMaps, filesToWrite, content, properties, disk, errorMessage>>

Next ==
    \/ StartFile
    \/ StartClass
    \/ MapProperty
    \/ ThrowError
    \/ EmitClass
    \/ WriteFiles
    \/ Finish

Spec == Init /\ [][Next]_vars

---------------------------------------------------------------------------
(* Properties.                                                             *)

Contains(s, pat) == IndexOf(s, pat) # -1

\* the 0-based index of the first occurrence of pat in s at or after from
IndexFrom(s, pat, from) ==
    LET hits == {i \in from..(Len(s) - Len(pat)) : OccursAt(s, pat, i)}
    IN  IF hits = {} THEN -1 ELSE CHOOSE i \in hits : \A j \in hits : i <= j

\* the number of occurrences of pat in s
Count(s, pat) == Cardinality({i \in 0..(Len(s) - Len(pat)) : OccursAt(s, pat, i)})

\* whether the texts of markers occur in s one after the other, in order
RECURSIVE InOrderFrom(_, _, _)
InOrderFrom(markers, s, from) ==
    IF markers = <<>> THEN TRUE
    ELSE LET i == IndexFrom(s, Head(markers), from)
         IN  i # -1 /\ InOrderFrom(Tail(markers), s, i + Len(Head(markers)))

InOrder(markers, s) == InOrderFrom(markers, s, 0)

\* run() is about to map a property
AtProperty == pc = "props" /\ propIdx <= Len(CurClass.properties)

\* run() is about to emit the declaration of a class
AtEmit == pc = "props" /\ propIdx > Len(CurClass.properties)

\* the declarations of the kind property p is classified as
DeclsOfKind(file, p) == IF p.isEnum THEN file.enums ELSE file.typeAliases

IsReference(p) == p.typeKind = "TypeReference"

DeclaredHere(file, p) == \E i \in 1..Len(DeclsOfKind(file, p)) :
                             DeclsOfKind(file, p)[i].name = p.type

\* the files an import of file names p's type from
ImportTargets(file, p) ==
    {g \in 1..Len(files) :
        \E i \in 1..Len(file.imports) :
            /\ \E k \in 1..Len(file.imports[i].namedImports) :
                   file.imports[i].namedImports[k] = p.type
            /\ files[g].baseName = SubSeq(file.imports[i].moduleSpecifier, 3,
                                          Len(file.imports[i].moduleSpecifier)) \o ".ts"}

ImportedByName(file, p) ==
    \E i \in 1..Len(file.imports) : \E k \in 1..Len(file.imports[i].namedImports) :
        file.imports[i].namedImports[k] = p.type

\* the texts of the declarations of p's type, of p's kind, in file
LocalTexts(file, p) ==
    {DeclsOfKind(file, p)[i].text :
        i \in {j \in 1..Len(DeclsOfKind(file, p)) : DeclsOfKind(file, p)[j].name = p.type}}

\* the declaration texts a lookup for p from file can find: the file's own,
\* else those of the files it imports the name from
FoundTexts(file, p) ==
    IF ~IsReference(p) THEN {}
    ELSE IF DeclaredHere(file, p) THEN LocalTexts(file, p)
    ELSE UNION {LocalTexts(files[g], p) : g \in ImportTargets(file, p)}

\* what a step appends to the global buffer
Appended == SubSeq(globalContent', Len(globalContent) + 1, Len(globalContent'))

\* C1: for every declaration the locator finds, in the current file or via
\* the import hop, the returned text has the keyword export in front of the
\* declaration text if and only if the declaration text does not already
\* begin with export.
C1_ExportPrefixIffNotExported ==
    [][(AtProperty /\ IsReference(CurProp))
        => \A t \in FoundTexts(files[currentFile], CurProp) :
              /\ Contains(Appended, t)
              /\ (Contains(SubSeq(Appended, 1, IndexOf(Appended, t)), "export")
                    <=> ~OccursAt(t, "export", 0))]_vars

\* C2: when the symbol is not declared in the current file, an import names
\* it, the imported file is loaded and has no declaration of the kind with
\* that name, the run does not fail and nothing is appended to the buffer.
MissingInImportedFile(file, p) ==
    /\ IsReference(p)
    /\ ~DeclaredHere(file, p)
    /\ ImportTargets(file, p) # {}
    /\ FoundTexts(file, p) = {}

C2_MissingInImportedFileAppendsNothing ==
    [][(AtProperty /\ MissingInImportedFile(files[currentFile], CurProp))
        => (pc' = "props" /\ globalContent' = globalContent)]_vars

\* the positions <<file, class, property>> of the properties of the project
Positions ==
    UNION {UNION {{<<f, c, i>> : i \in 1..Len(files[f].classes[c].properties)} :
                    c \in 1..Len(files[f].classes)} :
           f \in 1..Len(files)}

PropAt(x) == files[x[1]].classes[x[2]].properties[x[3]]

\* the properties typed as an enum that their own file declares
LocalEnumRefs ==
    {x \in Positions : /\ IsReference(PropAt(x))
                       /\ PropAt(x).isEnum
                       /\ DeclaredHere(files[x[1]], PropAt(x))}

\* the number of properties whose lookup finds a declaration text holding t
Resolutions(t) ==
    Cardinality({x \in Positions :
                    \E u \in FoundTexts(files[x[1]], PropAt(x)) : Contains(u, t)})

LastIndexOf(s, pat) ==
    LET hits == {i \in 0..(Len(s) - Len(pat)) : OccursAt(s, pat, i)}
    IN  IF hits = {} THEN -1 ELSE CHOOSE i \in hits : \A j \in hits : i >= j

TypeDeclaration(className) == "export type " \o className \o " ="

\* C3 as stated: at the end of a run, for a class with a property typed as
\* an enum its file declares, the buffer holds the declaration text exactly
\* once, before the class's type declaration in the output.
C3_EnumTextExactlyOnce ==
    pc = "done" =>
        \A x \in LocalEnumRefs : \A t \in LocalTexts(files[x[1]], PropAt(x)) :
            /\ Count(globalContent, t) = 1
            /\ InOrder(<<t, TypeDeclaration(files[x[1]].classes[x[2]].name)>>,
                       disk[OutFile])

\* C3, amended: at the end of a run that succeeds, for a class with a
\* property typed as an enum its file declares, the buffer holds the
\* declaration text once for every property whose lookup finds it (at least
\* once, and more than once when several properties refer to it), and every
\* occurrence stands before the class's type declaration in the output.
C3_EnumTextOncePerReference ==
    pc = "done" =>
        \A x \in LocalEnumRefs : \A t \in LocalTexts(files[x[1]], PropAt(x)) :
            /\ Count(globalContent, t) = Resolutions(t)
            /\ Resolutions(t) >= 1
            /\ Count(disk[OutFile], t) = Resolutions(t)
            /\ LastIndexOf(disk[OutFile], t)
                  < IndexOf(disk[OutFile],
                            TypeDeclaration(files[x[1]].classes[x[2]].name))

C3_Witness ==
    /\ pc = "done"
    /\ \E x \in LocalEnumRefs : \E t \in LocalTexts(files[x[1]], PropAt(x)) :
          /\ Resolutions(t) >= 2
          /\ Count(globalContent, t) >= 2

\* C4: a property whose type is a reference that is not an enum is looked up
\* as a type alias.  If a loaded file the current file imports the name from
\* declares the alias, the step succeeds and appends the declaration after a
\* comment naming that file; if the current file neither declares the alias
\* nor imports the name, the run fails with an error naming it; and the text
\* appended never holds a declaration of a file that is neither the current
\* one nor one it imports the name from.
IsAliasRef(p) == IsReference(p) /\ ~p.isEnum

C4_AliasResolution ==
    [][(AtProperty /\ IsAliasRef(CurProp)) =>
        LET f == files[currentFile]
            p == CurProp
        IN  /\ \A g \in ImportTargets(f, p) : \A t \in LocalTexts(files[g], p) :
                  /\ pc' = "props"
                  /\ InOrder(<<"// " \o files[g].baseName, t>>, Appended)
            /\ (~DeclaredHere(f, p) /\ ~ImportedByName(f, p))
                  => (pc' = "failed" /\ Contains(errorMessage', p.type))
            /\ \A g \in 1..Len(files) : \A t \in LocalTexts(files[g], p) :
                  Contains(Appended, t) => (g = currentFile \/ g \in ImportTargets(f, p))
       ]_vars

C4_Witness ==
    /\ pc = "props"
    /\ propIdx = 2
    /\ IsAliasRef(CurClass.properties[1])
    /\ \E g \in ImportTargets(CurFile, CurClass.properties[1]) :
          /\ LocalTexts(files[g], CurClass.properties[1]) # {}
          /\ Contains(globalContent, "// " \o files[g].baseName)

\* what a step appends to the fragment of the file
Emitted == SubSeq(content', Len(content) + 1, Len(content'))

\* the child nodes of an extends expression that stand for a term: an
\* identifier, or a call of PartialType (in any case) with arguments
IsPartialCall(node) ==
    node.kind = "CallExpression" /\ ToLowerCase(node.firstChild) = "partialtype"

IsTerm(node) ==
    node.kind = "Identifier" \/ (IsPartialCall(node) /\ node.arguments # <<>>)

HasTerms(c) == \E i \in 1..Len(c.extends) : IsTerm(c.extends[i])

\* the type terms of an extends expression: an identifier as it is, a call of
\* PartialType as one Partial<X> for each argument X
RECURSIVE TermTexts(_)
TermTexts(children) ==
    IF children = <<>> THEN <<>>
    ELSE (IF Head(children).kind = "Identifier" THEN <<Head(children).text>>
          ELSE IF IsPartialCall(Head(children))
          THEN [i \in 1..Len(Head(children).arguments) |->
                   "Partial<" \o Head(children).arguments[i] \o ">"]
          ELSE <<>>)
         \o TermTexts(Tail(children))

\* the class emitted last and the text recorded for it
LastClass == CurFile.classes[classIdx - 1]
LastText == CHOOSE t \in {m[2] : m \in {n \in classTypeMaps : n[1] = LastClass.name}} : TRUE
AfterEmit == pc = "classes" /\ classIdx > 1

\* C5: a class with no property and no inheritance term (its extends
\* expression, if any, holds only unrecognised nodes) is emitted as
\* type ClassName = Record<string, any>, and no class is emitted with an
\* empty structural block.
C5_RecordFallback ==
    [][AtEmit =>
        /\ (Len(CurClass.properties) = 0 /\ ~HasTerms(CurClass))
              => /\ Contains(Emitted,
                             "type " \o CurClass.name \o " = Record<string, any>")
                 /\ ~Contains(Emitted, "{")
        /\ Contains(Emitted, "{") => Len(CurClass.properties) >= 1
      ]_vars

C5_Witness ==
    /\ AfterEmit
    /\ Len(LastClass.properties) = 0
    /\ LastClass.extends # <<>>
    /\ ~HasTerms(LastClass)
    /\ Contains(LastText, "= Record<string, any>")

\* C6: the structural block of a class with N >= 1 properties holds exactly N
\* field lines in declaration order, line i with the name of property i, a ?
\* if and only if property i is optional, and its type text unchanged.
FieldSignature(p) ==
    p.name \o (IF p.hasQuestionToken THEN "?" ELSE "") \o ": " \o p.type

C6_FieldLines ==
    [][(AtEmit /\ Len(CurClass.properties) >= 1) =>
        LET ps == CurClass.properties
        IN  /\ InOrder(<<"{">> \o [i \in 1..Len(ps) |-> FieldSignature(ps[i])] \o <<"}">>,
                       Emitted)
            /\ Count(Emitted, ": ") = Len(ps)
            /\ \A i \in 1..Len(ps) :
                  ~ps[i].hasQuestionToken => ~Contains(Emitted, ps[i].name \o "?")
      ]_vars

C6_Witness ==
    /\ AfterEmit
    /\ Len(LastClass.properties) >= 2
    /\ LastClass.properties[1].hasQuestionToken
    /\ ~LastClass.properties[2].hasQuestionToken
    /\ InOrder(<<FieldSignature(LastClass.properties[1]),
                 FieldSignature(LastClass.properties[2])>>, LastText)

\* C7: a class whose extends expression is a call of PartialType (in any
\* case) with k >= 1 arguments X1..Xk yields k terms, and its declaration
\* holds the k type terms Partial<X1> .. Partial<Xk>, in argument order.
C7_OneTermPerArgument ==
    [][(AtEmit /\ Len(CurClass.extends) = 1 /\ IsPartialCall(CurClass.extends[1])
               /\ CurClass.extends[1].arguments # <<>>) =>
        /\ Len(ExtendArgs(CurClass.extends)) = Len(CurClass.extends[1].arguments)
        /\ Count(Emitted, "Partial<") = Len(CurClass.extends[1].arguments)
        /\ InOrder(<<TypeDeclaration(CurClass.name)>> \o TermTexts(CurClass.extends),
                   Emitted)
      ]_vars

\* C8: the declaration of a class whose extends expression yields terms is
\* the terms joined with & in the order found (checked where every call of
\* PartialType has one argument; the code writes A& B, which the formatter
\* spaces), followed by & { field lines } if and only if the class has a
\* property; Record<string, any> is not emitted for it.
OneArgumentCalls(c) ==
    \A i \in 1..Len(c.extends) :
        IsPartialCall(c.extends[i]) => Len(c.extends[i].arguments) = 1

C8_ExtendedClass ==
    [][(AtEmit /\ HasTerms(CurClass)) =>
        /\ OneArgumentCalls(CurClass)
              => /\ Contains(Emitted, TypeDeclaration(CurClass.name) \o " "
                                      \o Join(TermTexts(CurClass.extends), "& ") \o "\n")
                 /\ Count(Emitted, "&") = Len(TermTexts(CurClass.extends)) - 1
                                          + (IF Len(CurClass.properties) >= 1 THEN 1 ELSE 0)
        /\ Contains(Emitted, "{") <=> Len(CurClass.properties) >= 1
        /\ Contains(Emitted, "{") => InOrder(<<"&", "{">>, Emitted)
        /\ ~Contains(Emitted, "Record<string, any>")
      ]_vars

C8_Witness ==
    /\ AfterEmit
    /\ TermTexts(LastClass.extends) = <<"A", "B">>
    /\ Len(LastClass.properties) >= 1
    /\ InOrder(<<"= A& B", "&", "{", "}">>, LastText)

\* the positions of the properties of the files before file k
PositionsBefore(k) == {x \in Positions : x[1] < k}

\* the number of properties of the files before file k whose lookup finds a
\* declaration text holding t
ResolutionsBefore(k, t) ==
    Cardinality({x \in PositionsBefore(k) :
                    \E u \in FoundTexts(files[x[1]], PropAt(x)) : Contains(u, t)})

\* the number of classes named n in the files before file k
ClassesBefore(k, n) ==
    Cardinality({x \in UNION {{<<f, c>> : c \in 1..Len(files[f].classes)} : f \in 1..(k - 1)} :
                    files[x[1]].classes[x[2]].name = n})

DeclarationTexts ==
    UNION {{files[f].enums[i].text : i \in 1..Len(files[f].enums)}
           \cup {files[f].typeAliases[i].text : i \in 1..Len(files[f].typeAliases)} :
           f \in 1..Len(files)}

\* a lookup for p from file fails: the name is neither declared in the file
\* nor imported from a loaded file
LookupFails(file, p) ==
    IsReference(p) /\ ~DeclaredHere(file, p) /\ ImportTargets(file, p) = {}

\* the artifacts hold the classes and the resolved declarations of the files
\* before file k and nothing of file k or a later file
ArtifactsAsAfter(k) ==
    /\ Len(filesToWrite) = k - 1
    /\ k = 1 => DOMAIN disk = {}
    /\ k > 1 =>
          /\ DOMAIN disk = {TempFile, OutFile}
          /\ \A a \in DOMAIN disk :
                /\ \A n \in {ClassNames[i] : i \in 1..Len(ClassNames)} :
                      Count(disk[a], TypeDeclaration(n)) = ClassesBefore(k, n)
                /\ \A t \in DeclarationTexts :
                      Count(disk[a], t) = ResolutionsBefore(k, t)

\* C9: a failing lookup of a property of file k ends the run in the failed
\* state, no step follows, no class is emitted and nothing is written by the
\* failing step, and the artifacts hold what was written after file k - 1:
\* nothing for k = 1, and none of the declarations appended while file k was
\* processed.
C9_AbortOnFailure ==
    /\ [](pc = "failed" => ArtifactsAsAfter(fileIdx))
    /\ [][/\ pc # "failed"
          /\ (AtProperty /\ LookupFails(files[currentFile], CurProp))
                => /\ pc' = "failed"
                   /\ disk' = disk
                   /\ filesToWrite' = filesToWrite
                   /\ content' = content
                   /\ fileIdx' = fileIdx]_vars

C9_Witness ==
    /\ pc = "failed"
    /\ fileIdx = 2
    /\ \E t \in DeclarationTexts :
          /\ Count(globalContent, t) > Count(disk[TempFile], t)
          /\ Count(disk[TempFile], t) = ResolutionsBefore(2, t)

\* the declaration texts the lookups of the properties of the files before
\* file k find, in the order of the lookups
RECURSIVE ResolvedInClass(_, _, _)
ResolvedInClass(f, c, i) ==
    IF i > Len(files[f].classes[c].properties) THEN <<>>
    ELSE LET found == FoundTexts(files[f], files[f].classes[c].properties[i])
         IN  (IF found = {} THEN <<>> ELSE <<CHOOSE t \in found : TRUE>>)
             \o ResolvedInClass(f, c, i + 1)

RECURSIVE ResolvedInFile(_, _)
ResolvedInFile(f, c) ==
    IF c > Len(files[f].classes) THEN <<>>
    ELSE ResolvedInClass(f, c, 1) \o ResolvedInFile(f, c + 1)

RECURSIVE ResolvedBefore(_)
ResolvedBefore(k) ==
    IF k <= 1 THEN <<>> ELSE ResolvedBefore(k - 1) \o ResolvedInFile(k - 1, 1)

\* the header and the type declarations of the files before file k, in order
RECURSIVE FragmentsBefore(_)
FragmentsBefore(k) ==
    IF k <= 1 THEN <<>>
    ELSE FragmentsBefore(k - 1)
         \o <<"// " \o files[k - 1].baseName>>
         \o [c \in 1..Len(files[k - 1].classes) |->
                TypeDeclaration(files[k - 1].classes[c].name)]

AllBlank(s) == \A i \in 1..Len(s) : SubSeq(s, i, i) \in {" ", "\n"}

\* C10: after file k the output is one namespace block that holds the whole
\* global buffer first, the buffer holding the declarations resolved in
\* files 1..k in the order of their resolution and only ever growing at its
\* end, and then the fragments of files 1..k in order, each with one type
\* declaration for each class of the file in declaration order.
OutputAsAfter(k) ==
    LET out == disk[OutFile]
        open == "namespace " \o Namespace \o " {"
        start == IndexOf(out, open) + Len(open)
        at == IndexFrom(out, globalContent, start)
        rest == SubSeq(out, at + Len(globalContent) + 1, Len(out))
    IN  /\ Count(out, "namespace ") = 1
        /\ AllBlank(SubSeq(out, 1, IndexOf(out, open)))
        /\ at # -1
        /\ AllBlank(SubSeq(out, start + 1, at))
        /\ InOrder(ResolvedBefore(k + 1), globalContent)
        /\ InOrder(FragmentsBefore(k + 1) \o <<"}">>, rest)
        /\ Count(rest, "// ") = k
        /\ Count(rest, "export type ") = Len(FragmentsBefore(k + 1)) - k
        /\ ~Contains(rest, "namespace")

C10_CumulativeOutput ==
    /\ []((pc = "files" /\ fileIdx > 1) => OutputAsAfter(fileIdx - 1))
    /\ [][/\ Len(globalContent') >= Len(globalContent)
          /\ SubSeq(globalContent', 1, Len(globalContent)) = globalContent]_vars

C10_Witness ==
    /\ pc = "files"
    /\ fileIdx = 3
    /\ Len(files[1].classes) >= 1
    /\ Len(files[2].classes) >= 1
    /\ Len(ResolvedBefore(3)) = 2
    /\ ResolvedBefore(3)[1] # ResolvedBefore(3)[2]
    /\ InOrder(ResolvedBefore(3) \o FragmentsBefore(3), disk[OutFile])

===========================================================================
